---- MODULE Spec2Model ----
(***************************************************************************)
(* Model of destroyable-server (src/index.ts): makeDestroyable(server)     *)
(* tracks the open connections of a server in connectionDict and adds a    *)
(* destroy() method that closes the server, force-terminates every tracked *)
(* connection and resolves a promise once they have all closed.            *)
(*                                                                         *)
(* One action is one turn of the event loop together with the microtasks   *)
(* it queues (promise reactions); setImmediate callbacks are turns of      *)
(* their own.  The server and the sockets are the host's: their events     *)
(* (connection, secureConnection, close, the server-close callback) are    *)
(* the environment's actions.                                              *)
(***************************************************************************)
EXTENDS Integers, Sequences, FiniteSets, TLC

(* ---- bounds ---- *)
NumHandles == 2
NumKeys == 2
MaxCalls == 1
MaxCloseEvents == 2

Handles == 1..NumHandles
Keys == 1..NumKeys
Calls == 1..MaxCalls
NoParent == 0

VARIABLES
    remoteKey,      \* conn.remoteAddress + ':' + conn.remotePort of each handle
    parentOf,       \* conn._parent of each handle (NoParent when undefined)
    accepted,       \* the server has emitted the handle in a connection event
    destroyed,      \* conn.destroyed of each handle
    closeCount,     \* number of 'close' events the handle has emitted
    connectionDict, \* ordered dictionary: sequence of [key, conns]
    nCalls,         \* number of destroy() calls made so far
    signal,         \* per call: "idle" | "pending" | "resolved" | "rejected"
    serverCb,       \* per call: "none" | "pending" | "ok" | "err"
    waiting,        \* per call: handles whose close promise is armed on 'close' and unresolved
    immediate,      \* per call: the setImmediate callback is queued
    destroyLog,     \* per call: handles in the order conn.destroy() was invoked
    trackedAtCall,  \* per call: connectionDict when destroy() was called
    destroyedAtCall,\* per call: the destroyed flags when destroy() was called
    closedAtCall    \* per call: the handles that had emitted 'close' when destroy() was called

vars == <<remoteKey, parentOf, accepted, destroyed, closeCount,
          connectionDict, nCalls, signal, serverCb, waiting, immediate,
          destroyLog, trackedAtCall, destroyedAtCall, closedAtCall>>

envVars == <<remoteKey, parentOf>>
callVars == <<nCalls, signal, serverCb, waiting, immediate, destroyLog,
              trackedAtCall, destroyedAtCall, closedAtCall>>

closeFired(h) == closeCount[h] > 0

(* ---- the ordered dictionary connectionDict ---- *)

\* position of key among the dictionary's own properties, 0 when absent
KeyIndex(dict, key) ==
    IF \E i \in 1..Len(dict) : dict[i].key = key
    THEN CHOOSE i \in 1..Len(dict) : dict[i].key = key
    ELSE 0

HasKey(dict, key) == KeyIndex(dict, key) # 0

Conns(dict, key) == dict[KeyIndex(dict, key)].conns

\* delete dict[key]
DeleteKey(dict, key) ==
    LET k == KeyIndex(dict, key)
    IN  [i \in 1..(Len(dict) - 1) |-> IF i < k THEN dict[i] ELSE dict[i + 1]]

\* Array.prototype.indexOf: 0-based index of the first identical element, -1 if none
IndexOf(conns, conn) ==
    IF \E i \in 1..Len(conns) : conns[i] = conn
    THEN (CHOOSE i \in 1..Len(conns) :
             conns[i] = conn /\ \A j \in 1..(i - 1) : conns[j] # conn) - 1
    ELSE -1

\* variant: splice(index) without a count removes everything from index on
Splice1_ToEnd(conns, start) == [i \in 1..start |-> conns[i]]

\* Array.prototype.splice(start, 1): a negative start counts from the end
Splice1(conns, start) ==
    LET s0 == IF start < 0
              THEN (IF Len(conns) + start < 0 THEN 0 ELSE Len(conns) + start)
              ELSE (IF start > Len(conns) THEN Len(conns) ELSE start)
    IN  IF s0 >= Len(conns) THEN conns
        ELSE [i \in 1..(Len(conns) - 1) |-> IF i <= s0 THEN conns[i] ELSE conns[i + 1]]

\* variant: the entry of a key holds only the handle accepted last
addConnection_Overwrite(dict, key, conn) ==
    IF HasKey(dict, key)
    THEN [dict EXCEPT ![KeyIndex(dict, key)].conns = <<conn>>]
    ELSE Append(dict, [key |-> key, conns |-> <<conn>>])

\* variant: a new entry is created holding the handle, which is then pushed too
addConnection_InitAndPush(dict, key, conn) ==
    IF HasKey(dict, key)
    THEN [dict EXCEPT ![KeyIndex(dict, key)].conns = Append(@, conn)]
    ELSE Append(dict, [key |-> key, conns |-> <<conn, conn>>])

addConnection(dict, key, conn) ==
    IF HasKey(dict, key)
    THEN [dict EXCEPT ![KeyIndex(dict, key)].conns = Append(@, conn)]
    ELSE Append(dict, [key |-> key, conns |-> <<conn>>])

\* variant: the entry of a key is never deleted, only spliced
removeConnection_NeverDelete(dict, key, conn) ==
    IF ~HasKey(dict, key) THEN dict
    ELSE LET conns == Conns(dict, key)
             index == IndexOf(conns, conn)
         IN  IF index # -1
             THEN [dict EXCEPT ![KeyIndex(dict, key)].conns = Splice1(conns, index)]
             ELSE dict

\* variant: a close event deletes the whole entry of the key
removeConnection_DeleteKey(dict, key, conn) ==
    IF ~HasKey(dict, key) THEN dict ELSE DeleteKey(dict, key)

\* variant: splice without testing that the handle was found
removeConnection_NoIndexCheck(dict, key, conn) ==
    IF ~HasKey(dict, key) THEN dict
    ELSE LET conns == Conns(dict, key)
             index == IndexOf(conns, conn)
         IN  IF Len(conns) = 1 /\ index = 0
             THEN DeleteKey(dict, key)
             ELSE [dict EXCEPT ![KeyIndex(dict, key)].conns = Splice1(conns, index)]

removeConnection(dict, key, conn) ==
    IF ~HasKey(dict, key) THEN dict
    ELSE LET conns == Conns(dict, key)
             index == IndexOf(conns, conn)
         IN  IF Len(conns) = 1 /\ index = 0
             THEN DeleteKey(dict, key)
             ELSE IF index # -1
                  THEN [dict EXCEPT ![KeyIndex(dict, key)].conns = Splice1(conns, index)]
                  ELSE dict

(* ---- closed-state detection ---- *)

\* variant: the walk moves to the parent before reading a flag
RECURSIVE checkDestroyed_ParentsOnly(_, _)
checkDestroyed_ParentsOnly(conn, flags) ==
    IF parentOf[conn] = NoParent THEN FALSE
    ELSE flags[parentOf[conn]] \/ checkDestroyed_ParentsOnly(parentOf[conn], flags)

\* variant: only the handle's own flag is read
checkDestroyed_NoParents(conn, flags) == flags[conn]

RECURSIVE checkDestroyed(_, _)
checkDestroyed(conn, flags) ==
    IF flags[conn] THEN TRUE
    ELSE IF parentOf[conn] = NoParent THEN FALSE
    ELSE checkDestroyed(parentOf[conn], flags)

\* conn.closed: set by the runtime when it emits 'close' (Node v20+; undefined
\* before, where the test falls through to checkDestroyed)
ClosedProp(conn) == closeFired(conn)

(* ---- initial state: after makeDestroyable(server) ---- *)

\* parent chains are finite and acyclic: a wrapping handle is created after the
\* one it wraps
ParentMaps == {p \in [Handles -> Handles \cup {NoParent}] :
                  \A h \in Handles : p[h] = NoParent \/ p[h] < h}

\* a wrapping handle reports the remote address and port of the handle it wraps;
\* the first handle's endpoint is named 1
KeyMaps(p) == {k \in [Handles -> Keys] :
                  /\ k[1] = 1
                  /\ \A h \in Handles : p[h] # NoParent => k[h] = k[p[h]]}

Init ==
    /\ parentOf \in ParentMaps
    /\ remoteKey \in KeyMaps(parentOf)
    /\ accepted = [h \in Handles |-> FALSE]
    /\ destroyed = [h \in Handles |-> FALSE]
    /\ closeCount = [h \in Handles |-> 0]
    /\ connectionDict = <<>>
    /\ nCalls = 0
    /\ signal = [c \in Calls |-> "idle"]
    /\ serverCb = [c \in Calls |-> "none"]
    /\ waiting = [c \in Calls |-> {}]
    /\ immediate = [c \in Calls |-> FALSE]
    /\ destroyLog = [c \in Calls |-> <<>>]
    /\ trackedAtCall = [c \in Calls |-> <<>>]
    /\ destroyedAtCall = [c \in Calls |-> [h \in Handles |-> FALSE]]
    /\ closedAtCall = [c \in Calls |-> {}]

(* ---- the listeners installed by makeDestroyable ---- *)

\* variant: handles accepted once destroy() has been called are not registered
OnAccept_IgnoredAfterDestroy(dict, conn) ==
    IF nCalls > 0 THEN dict ELSE addConnection(dict, remoteKey[conn], conn)

\* server.on('connection' | 'secureConnection'): register the handle under its key
OnAccept(dict, conn) == addConnection(dict, remoteKey[conn], conn)

\* variant: the secureConnection listener attaches no close listener
OnConnClose_SecureUntracked(dict, conn) ==
    IF parentOf[conn] # NoParent THEN dict
    ELSE removeConnection(dict, remoteKey[conn], conn)

\* the conn.on('close') listener attached at accept time
OnConnClose(dict, conn) == removeConnection(dict, remoteKey[conn], conn)

(* ---- destroy() ---- *)

\* variant: the handles of a key are visited oldest first
Reverse_Forward(s) == s

\* variant: the inner loop stops at i > 0 and skips the oldest handle of a key
Reverse_SkipOldest(s) == [i \in 1..(Len(s) - 1) |-> s[Len(s) + 1 - i]]

Reverse(s) == [i \in 1..Len(s) |-> s[Len(s) + 1 - i]]

\* for (key in connectionDict) for (i = length - 1; i >= 0; i--): the handles
\* in the order the loops visit them
RECURSIVE IterationOrder(_)
IterationOrder(dict) ==
    IF dict = <<>> THEN <<>>
    ELSE Reverse(Head(dict).conns) \o IterationOrder(Tail(dict))

\* the test made by the executor of a close promise
AlreadyClosed(conn, flags) == ClosedProp(conn) \/ checkDestroyed(conn, flags)

\* conn.destroy(): the runtime marks the stream destroyed at once and emits
\* 'close' in a later turn
SocketDestroy(flags, conn) == [flags EXCEPT ![conn] = TRUE]

\* variant: conn.destroy() is called before the close promise is created
RECURSIVE DestroyLoop_DestroyFirst(_, _, _)
DestroyLoop_DestroyFirst(order, i, st) ==
    IF i > Len(order) THEN st
    ELSE LET conn == order[i]
             flags2 == SocketDestroy(st.flags, conn)
             armNow == ~AlreadyClosed(conn, flags2)
         IN  DestroyLoop_DestroyFirst(order, i + 1,
                 [flags |-> flags2,
                  armed |-> IF armNow THEN st.armed \cup {conn} ELSE st.armed,
                  log   |-> Append(st.log, conn)])

\* body of the inner loop, for the handles order[i..]: create the close promise
\* (resolved at once or armed on 'close'), then call conn.destroy()
RECURSIVE DestroyLoop(_, _, _)
DestroyLoop(order, i, st) ==
    IF i > Len(order) THEN st
    ELSE LET conn == order[i]
             armNow == ~AlreadyClosed(conn, st.flags)
         IN  DestroyLoop(order, i + 1,
                 [flags |-> SocketDestroy(st.flags, conn),
                  armed |-> IF armNow THEN st.armed \cup {conn} ELSE st.armed,
                  log   |-> Append(st.log, conn)])

\* Promise.all(closePromises) is fulfilled when no close promise is unresolved
PromiseAll(unresolved) == unresolved = {}

\* variant: the reaction resolves at once, without setImmediate
ThenAllClosed_Sync(sig) ==
    [signal |-> IF sig = "pending" THEN "resolved" ELSE sig, immediate |-> FALSE]

\* variant: the reaction never resolves
ThenAllClosed_Dropped(sig) == [signal |-> sig, immediate |-> FALSE]

\* the reaction to Promise.all: setImmediate(() => resolve())
ThenAllClosed(sig) == [signal |-> sig, immediate |-> TRUE]

\* resolve() of the promise returned by destroy(): settles it only if still pending
Resolve(sig) == IF sig = "pending" THEN "resolved" ELSE sig

\* variant: reject(err) overrides a settled signal
Reject_Always(sig) == "rejected"

\* reject(err)
Reject(sig) == IF sig = "pending" THEN "rejected" ELSE sig

\* variant: the callback also resolves when the server reports no error
ServerCloseCb_Resolves(sig, err) == IF err THEN Reject(sig) ELSE Resolve(sig)

\* the callback given to server.close
ServerCloseCb(sig, err) == IF err THEN Reject(sig) ELSE sig

(* ---- actions ---- *)

\* the server emits a connection event with a handle it has not emitted before
Accept(h) ==
    /\ ~accepted[h]
    /\ accepted' = [accepted EXCEPT ![h] = TRUE]
    /\ connectionDict' = OnAccept(connectionDict, h)
    /\ UNCHANGED <<envVars, destroyed, closeCount, callVars>>

\* 'connection': a raw socket
Connection(h) == parentOf[h] = NoParent /\ Accept(h)

\* 'secureConnection': a secure socket wrapping a raw one
SecureConnection(h) == parentOf[h] # NoParent /\ Accept(h)

\* an open socket is torn down by something other than destroy(): the peer, an
\* error, the application
EnvDestroy(h) ==
    /\ accepted[h]
    /\ ~destroyed[h]
    /\ ~closeFired(h)
    /\ destroyed' = [destroyed EXCEPT ![h] = TRUE]
    /\ UNCHANGED <<envVars, accepted, closeCount, connectionDict, callVars>>

\* the listeners of a 'close' event of h, in the order they were attached: the
\* one of the accept listener, then the resolvers of the close promises armed
\* on h, then the promise reactions
RunCloseListeners(h) ==
    /\ connectionDict' = OnConnClose(connectionDict, h)
    /\ waiting' = [c \in Calls |-> waiting[c] \ {h}]
    /\ LET done(c) == h \in waiting[c] /\ PromiseAll(waiting[c] \ {h})
       IN  /\ signal' = [c \in Calls |->
                 IF done(c) THEN ThenAllClosed(signal[c]).signal ELSE signal[c]]
           /\ immediate' = [c \in Calls |->
                 IF done(c) THEN ThenAllClosed(signal[c]).immediate ELSE immediate[c]]

\* a handle whose teardown has begun (its own or that of a handle it wraps)
\* emits 'close'
Close(h) ==
    /\ accepted[h]
    /\ ~closeFired(h)
    /\ checkDestroyed(h, destroyed)
    /\ closeCount' = [closeCount EXCEPT ![h] = 1]
    /\ RunCloseListeners(h)
    /\ UNCHANGED <<envVars, accepted, destroyed, nCalls, serverCb, destroyLog,
                   trackedAtCall, destroyedAtCall, closedAtCall>>

\* a handle emits 'close' again (duplicate or late close event)
LateClose(h) ==
    /\ closeFired(h)
    /\ closeCount[h] < MaxCloseEvents
    /\ closeCount' = [closeCount EXCEPT ![h] = @ + 1]
    /\ RunCloseListeners(h)
    /\ UNCHANGED <<envVars, accepted, destroyed, nCalls, serverCb, destroyLog,
                   trackedAtCall, destroyedAtCall, closedAtCall>>

\* variant: destroy() empties the registry itself after the loops
Destroy_ClearsRegistry ==
    /\ nCalls < MaxCalls
    /\ LET c == nCalls + 1
           order == IterationOrder(connectionDict)
           r == DestroyLoop(order, 1, [flags |-> destroyed, armed |-> {}, log |-> <<>>])
           after == IF PromiseAll(r.armed)
                    THEN ThenAllClosed("pending")
                    ELSE [signal |-> "pending", immediate |-> FALSE]
       IN  /\ nCalls' = c
           /\ serverCb' = [serverCb EXCEPT ![c] = "pending"]
           /\ destroyed' = r.flags
           /\ waiting' = [waiting EXCEPT ![c] = r.armed]
           /\ destroyLog' = [destroyLog EXCEPT ![c] = r.log]
           /\ signal' = [signal EXCEPT ![c] = after.signal]
           /\ immediate' = [immediate EXCEPT ![c] = after.immediate]
           /\ trackedAtCall' = [trackedAtCall EXCEPT ![c] = connectionDict]
           /\ destroyedAtCall' = [destroyedAtCall EXCEPT ![c] = destroyed]
           /\ closedAtCall' = [closedAtCall EXCEPT ![c] = {h \in Handles : closeFired(h)}]
    /\ connectionDict' = <<>>
    /\ UNCHANGED <<envVars, accepted, closeCount>>

\* server.destroy(): the synchronous body of the promise executor, then the
\* promise reactions it queued
Destroy ==
    /\ nCalls < MaxCalls
    /\ LET c == nCalls + 1
           order == IterationOrder(connectionDict)
           r == DestroyLoop(order, 1, [flags |-> destroyed, armed |-> {}, log |-> <<>>])
           after == IF PromiseAll(r.armed)
                    THEN ThenAllClosed("pending")
                    ELSE [signal |-> "pending", immediate |-> FALSE]
       IN  /\ nCalls' = c
           /\ serverCb' = [serverCb EXCEPT ![c] = "pending"]
           /\ destroyed' = r.flags
           /\ waiting' = [waiting EXCEPT ![c] = r.armed]
           /\ destroyLog' = [destroyLog EXCEPT ![c] = r.log]
           /\ signal' = [signal EXCEPT ![c] = after.signal]
           /\ immediate' = [immediate EXCEPT ![c] = after.immediate]
           /\ trackedAtCall' = [trackedAtCall EXCEPT ![c] = connectionDict]
           /\ destroyedAtCall' = [destroyedAtCall EXCEPT ![c] = destroyed]
           /\ closedAtCall' = [closedAtCall EXCEPT ![c] = {h \in Handles : closeFired(h)}]
    /\ UNCHANGED <<envVars, accepted, closeCount, connectionDict>>

\* the server calls the callback given to server.close, with or without an error
ServerClosed(c, err) ==
    /\ serverCb[c] = "pending"
    /\ serverCb' = [serverCb EXCEPT ![c] = IF err THEN "err" ELSE "ok"]
    /\ signal' = [signal EXCEPT ![c] = ServerCloseCb(signal[c], err)]
    /\ UNCHANGED <<envVars, accepted, destroyed, closeCount, connectionDict, nCalls,
                   waiting, immediate, destroyLog, trackedAtCall, destroyedAtCall,
                   closedAtCall>>

\* the setImmediate callback of call c runs
RunImmediate(c) ==
    /\ immediate[c]
    /\ immediate' = [immediate EXCEPT ![c] = FALSE]
    /\ signal' = [signal EXCEPT ![c] = Resolve(signal[c])]
    /\ UNCHANGED <<envVars, accepted, destroyed, closeCount, connectionDict, nCalls,
                   serverCb, waiting, destroyLog, trackedAtCall, destroyedAtCall,
                   closedAtCall>>

Next ==
    \/ \E h \in Handles : Connection(h)
    \/ \E h \in Handles : SecureConnection(h)
    \/ \E h \in Handles : EnvDestroy(h)
    \/ \E h \in Handles : Close(h)
    \/ \E h \in Handles : LateClose(h)
    \/ Destroy
    \/ \E c \in Calls, err \in BOOLEAN : ServerClosed(c, err)
    \/ \E c \in Calls : RunImmediate(c)

Spec == Init /\ [][Next]_vars

\* destroy() resolves if every force-terminated handle emits 'close' and the
\* setImmediate callbacks run
LiveSpec ==
    /\ Spec
    /\ \A h \in Handles : WF_vars(Close(h))
    /\ \A c \in Calls : WF_vars(RunImmediate(c))

(* ---- vocabulary of the properties ---- *)

made(c) == c <= nCalls

InSeq(s, x) == \E i \in 1..Len(s) : s[i] = x

\* position of x in s, 0 when absent
Pos(s, x) == IF InSeq(s, x) THEN CHOOSE i \in 1..Len(s) : s[i] = x ELSE 0

\* number of entries of key in dict that are the handle h
Count(dict, key, h) ==
    Cardinality({<<i, j>> \in (1..Len(dict)) \X (1..NumHandles) :
                    /\ dict[i].key = key
                    /\ j <= Len(dict[i].conns)
                    /\ dict[i].conns[j] = h})

\* the handles held by a registry
HandlesOf(dict) == {h \in Handles : \E i \in 1..Len(dict) : InSeq(dict[i].conns, h)}

TrackedSet(c) == HandlesOf(trackedAtCall[c])

RECURSIVE AncestorsOrSelf(_)
AncestorsOrSelf(h) ==
    {h} \cup (IF parentOf[h] = NoParent THEN {} ELSE AncestorsOrSelf(parentOf[h]))

\* h reported closed to call c under the destroyed flags: its closed flag, its
\* destroyed flag or the destroyed flag of a handle of its parent chain was set
ReportsClosed(c, h, flags) ==
    h \in closedAtCall[c] \/ \E a \in AncestorsOrSelf(h) : flags[a]

\* the destroyed flags when call c examined h: the flags at the call and those
\* of the handles the call had force-terminated before
ExamFlags(c, h) ==
    [x \in Handles |-> destroyedAtCall[c][x]
                       \/ (InSeq(destroyLog[c], x)
                           /\ Pos(destroyLog[c], x) < Pos(destroyLog[c], h))]

(* ---- properties ---- *)

\* C1: the completion signal of a destroy() call is not resolved before every
\* handle that was in the registry at the call has emitted 'close' or reported
\* closed (itself or through its parent chain) when the call examined it
C1_ResolvedOnlyAfterAllClosed ==
    \A c \in Calls :
        signal[c] = "resolved" =>
            \A h \in TrackedSet(c) :
                closeFired(h) \/ ReportsClosed(c, h, ExamFlags(c, h))

\* a call resolved after waiting for the close events of two tracked handles
C1_Witness ==
    \E c \in Calls :
        /\ signal[c] = "resolved"
        /\ Cardinality(TrackedSet(c)) >= 2
        /\ \A h \in TrackedSet(c) : ~ReportsClosed(c, h, ExamFlags(c, h)) /\ closeFired(h)

\* C2: the completion signal is never resolved while the server-close callback
\* of the call is still pending
C2_ResolvedOnlyAfterServerClosed ==
    \A c \in Calls : signal[c] = "resolved" => serverCb[c] \in {"ok", "err"}

\* C3: if the server-close callback reported an error, the completion signal
\* has failed
C3_ServerErrorPropagates ==
    \A c \in Calls : serverCb[c] = "err" => signal[c] = "rejected"

\* C4: of two handles tracked under one key at the call, the one registered
\* later is force-terminated strictly before the one registered earlier
C4_ReverseOrderWithinKey ==
    \A c \in Calls :
        made(c) =>
            \A e \in 1..Len(trackedAtCall[c]) :
                LET conns == trackedAtCall[c][e].conns
                IN  \A i, j \in 1..Len(conns) :
                        i < j =>
                            /\ InSeq(destroyLog[c], conns[i])
                            /\ InSeq(destroyLog[c], conns[j])
                            /\ Pos(destroyLog[c], conns[j]) < Pos(destroyLog[c], conns[i])

\* a call found two handles under one key and terminated the later one first
C4_Witness ==
    \E c \in Calls :
        /\ made(c)
        /\ \E e \in 1..Len(trackedAtCall[c]) :
              /\ Len(trackedAtCall[c][e].conns) >= 2
              /\ destroyLog[c][1] = trackedAtCall[c][e].conns[Len(trackedAtCall[c][e].conns)]

\* C5: every open accepted handle has an entry of its own under its key, also
\* when it shares the key, and a destroy() call has force-terminated every one
\* of them when it returns: each reports destroyed
C5_DuplicatesTrackedAndDestroyed ==
    [][nCalls' = nCalls + 1 =>
          \A h \in Handles :
              (accepted[h] /\ ~closeFired(h)) =>
                  /\ Count(connectionDict, remoteKey[h], h) = 1
                  /\ InSeq(destroyLog'[nCalls'], h)
                  /\ destroyed'[h]]_vars

\* a call has just returned with two handles tracked under one key, both destroyed
C5_Witness ==
    \E c \in Calls :
        /\ made(c)
        /\ signal[c] = "pending"
        /\ \E h1, h2 \in Handles :
              /\ h1 # h2
              /\ remoteKey[h1] = remoteKey[h2]
              /\ {h1, h2} \subseteq TrackedSet(c)
              /\ {h1, h2} \subseteq HandlesOf(connectionDict)
              /\ destroyed[h1] /\ destroyed[h2]
              /\ ~destroyedAtCall[c][h1] /\ ~destroyedAtCall[c][h2]

\* C6: a handle is in the sequence of its key exactly when it was accepted and
\* has not emitted 'close'; once every accepted handle has, the registry is empty
C6_RegistryTracksOpenHandles ==
    /\ \A h \in Handles :
          (HasKey(connectionDict, remoteKey[h])
              /\ InSeq(Conns(connectionDict, remoteKey[h]), h))
          <=> (accepted[h] /\ ~closeFired(h))
    /\ (\A h \in Handles : accepted[h] => closeFired(h)) => connectionDict = <<>>

\* two handles sharing a key were accepted, one has closed and the other is
\* still tracked
C6_Witness ==
    \E h1, h2 \in Handles :
        /\ h1 # h2
        /\ remoteKey[h1] = remoteKey[h2]
        /\ accepted[h1] /\ closeFired(h1)
        /\ accepted[h2] /\ ~closeFired(h2)
        /\ Conns(connectionDict, remoteKey[h2]) = <<h2>>

\* C7: a tracked handle that reported closed when destroy() was called (its own
\* flag or one of its parent chain) is not waited for
C7_PreClosedNotAwaited ==
    \A c \in Calls :
        \A h \in TrackedSet(c) :
            ReportsClosed(c, h, destroyedAtCall[c]) => h \notin waiting[c]

\* a call resolved although a handle that reported closed only through its
\* parent chain has never emitted 'close'
C7_Witness ==
    \E c \in Calls :
        /\ signal[c] = "resolved"
        /\ \E h \in TrackedSet(c) :
              /\ ~destroyedAtCall[c][h]
              /\ ReportsClosed(c, h, destroyedAtCall[c])
              /\ ~closeFired(h)

\* C8: a destroy() call whose server-close callback reports no error
\* eventually resolves, given that force-terminated handles emit 'close'
C8_EventuallyResolves ==
    \A c \in Calls :
        (signal[c] = "pending") ~> (signal[c] = "resolved" \/ serverCb[c] = "err")

\* a call resolved after force-terminating a handle that nothing else had torn
\* down, while the server-close callback is still pending
C8_Witness ==
    \E c \in Calls :
        /\ signal[c] = "resolved"
        /\ serverCb[c] = "pending"
        /\ \E h \in TrackedSet(c) :
              /\ ~ReportsClosed(c, h, ExamFlags(c, h))
              /\ closeCount[h] = 1

\* C9: unregistering a (key, handle) pair that is not in the registry leaves
\* the registry as it is
C9_UnregisterAbsentIsNoOp ==
    \A k \in Keys, h \in Handles :
        Count(connectionDict, k, h) = 0 =>
            removeConnection(connectionDict, k, h) = connectionDict

\* a handle emitted a second 'close' while another handle was tracked under its key
C9_Witness ==
    \E h1, h2 \in Handles :
        /\ h1 # h2
        /\ remoteKey[h1] = remoteKey[h2]
        /\ closeCount[h1] >= 2
        /\ HasKey(connectionDict, remoteKey[h1])
        /\ InSeq(Conns(connectionDict, remoteKey[h1]), h2)

\* C10: the completion signal is resolved only by a turn that starts with all
\* waits of the call already resolved and the deferred callback queued: never
\* by the turn that resolves the last wait, nor by destroy() itself
C10_ResolvedInALaterTurn ==
    [][\A c \in Calls :
          (signal[c] # "resolved" /\ signal'[c] = "resolved") =>
              /\ made(c)
              /\ waiting[c] = {}
              /\ immediate[c]]_vars

\* a call made with an empty registry has resolved
C10_Witness ==
    \E c \in Calls :
        /\ signal[c] = "resolved"
        /\ trackedAtCall[c] = <<>>
        /\ destroyLog[c] = <<>>

\* occurrences of x in s
Occ(s, x) == Cardinality({i \in 1..Len(s) : s[i] = x})

\* the sequence of a key, empty when the key is absent
SeqOf(dict, key) == IF HasKey(dict, key) THEN Conns(dict, key) ELSE <<>>

\* the keys of a registry in their order
KeysOf(dict) == [i \in 1..Len(dict) |-> dict[i].key]

\* s without its first element equal to x
RemoveFirst(s, x) ==
    IF ~InSeq(s, x) THEN s
    ELSE LET k == CHOOSE i \in 1..Len(s) : s[i] = x /\ \A j \in 1..(i - 1) : s[j] # x
         IN  [i \in 1..(Len(s) - 1) |-> IF i < k THEN s[i] ELSE s[i + 1]]

\* C11: a tracked handle that did not report closed before the call
\* force-terminated it has its wait armed on 'close' until it emits 'close':
\* the wait exists before conn.destroy() can cause the event
C11_WaitArmedBeforeDestroy ==
    \A c \in Calls :
        \A h \in TrackedSet(c) :
            (~ReportsClosed(c, h, ExamFlags(c, h)) /\ ~closeFired(h)) => h \in waiting[c]

\* a call is waiting for the 'close' of a handle it force-terminated itself
C11_Witness ==
    \E c \in Calls :
        \E h \in TrackedSet(c) :
            /\ ~ReportsClosed(c, h, ExamFlags(c, h))
            /\ destroyed[h]
            /\ ~closeFired(h)
            /\ waiting[c] = {h}

\* C12: a call invokes conn.destroy() exactly once on each handle that was in
\* the registry at the call and on no other handle, at the call and ever after
C12_DestroyedExactlyOnce ==
    \A c \in Calls :
        made(c) =>
            \A h \in Handles :
                Occ(destroyLog[c], h) = IF h \in TrackedSet(c) THEN 1 ELSE 0

\* a call force-terminated two handles, once each, and one of them has not
\* emitted 'close' since
C12_Witness ==
    \E c \in Calls :
        /\ made(c)
        /\ Len(destroyLog[c]) = 2
        /\ signal[c] = "pending"
        /\ \E h \in TrackedSet(c) : h \in waiting[c] /\ immediate[c] = FALSE
        /\ \E h \in TrackedSet(c) : closeFired(h)

\* C13: unregistering a handle that is in the sequence of its key removes its
\* first occurrence only: the other handles of the key keep their order, the
\* sequences of the other keys and the order of the remaining keys are unchanged
C13_UnregisterRemovesOneEntry ==
    \A k \in Keys, h \in Handles :
        Count(connectionDict, k, h) >= 1 =>
            LET after == removeConnection(connectionDict, k, h)
            IN  /\ \A k2 \in Keys :
                      SeqOf(after, k2) = IF k2 = k
                                         THEN RemoveFirst(SeqOf(connectionDict, k), h)
                                         ELSE SeqOf(connectionDict, k2)
                /\ KeysOf(after) = IF Len(SeqOf(connectionDict, k)) = 1
                                   THEN RemoveFirst(KeysOf(connectionDict), k)
                                   ELSE KeysOf(connectionDict)

\* the handle registered first under a shared key has closed and the one
\* registered after it is what the key holds
C13_Witness ==
    \E c \in Calls :
        /\ made(c)
        /\ \E e \in 1..Len(trackedAtCall[c]) :
              /\ Len(trackedAtCall[c][e].conns) = 2
              /\ closeCount[trackedAtCall[c][e].conns[1]] = 1
              /\ SeqOf(connectionDict, trackedAtCall[c][e].key)
                    = <<trackedAtCall[c][e].conns[2]>>

\* C14: no key of the registry maps to an empty sequence
C14_NoEmptySequence ==
    \A i \in 1..Len(connectionDict) : Len(connectionDict[i].conns) >= 1

\* the last handle of a key has closed and the key is gone, while another key
\* is still present
C14_Witness ==
    \E h \in Handles :
        /\ accepted[h]
        /\ closeFired(h)
        /\ ~HasKey(connectionDict, remoteKey[h])
        /\ connectionDict # <<>>

\* C15: a handle appears at most once in the whole registry, whichever of the
\* two accept events registered it
C15_HandleAtMostOnce ==
    \A h \in Handles :
        Cardinality({<<i, j>> \in (1..Len(connectionDict)) \X (1..(2 * NumHandles)) :
                        /\ j <= Len(connectionDict[i].conns)
                        /\ connectionDict[i].conns[j] = h}) <= 1

\* a raw handle and the secure handle wrapping it are tracked under one key
C15_Witness ==
    \E h1, h2 \in Handles :
        /\ parentOf[h2] = h1
        /\ HasKey(connectionDict, remoteKey[h1])
        /\ Len(Conns(connectionDict, remoteKey[h1])) = 2
        /\ InSeq(Conns(connectionDict, remoteKey[h1]), h1)
        /\ InSeq(Conns(connectionDict, remoteKey[h1]), h2)

\* C16: a destroy() call leaves the registry as it found it, and a handle
\* leaves the registry only in a turn in which it emits 'close'
C16_DestroyKeepsRegistry ==
    [][/\ nCalls' = nCalls + 1 => connectionDict' = connectionDict
       /\ \A h \in Handles :
             (h \in HandlesOf(connectionDict) /\ h \notin HandlesOf(connectionDict'))
                 => closeCount'[h] > closeCount[h]]_vars

\* a call has returned and the handles it force-terminated are all still in
\* the registry, awaited
C16_Witness ==
    \E c \in Calls :
        /\ made(c)
        /\ trackedAtCall[c] # <<>>
        /\ connectionDict = trackedAtCall[c]
        /\ waiting[c] = TrackedSet(c)
        /\ \A h \in TrackedSet(c) : destroyed[h] /\ ~destroyedAtCall[c][h]

\* C17: under any destroyed flags, checkDestroyed of a handle is true exactly
\* when the handle or a handle of its parent chain is flagged, false otherwise
C17_CheckDestroyedWalksParents ==
    \A flags \in [Handles -> BOOLEAN], h \in Handles :
        checkDestroyed(h, flags) = (\E a \in AncestorsOrSelf(h) : flags[a])

\* a call examined a wrapping handle whose own flag was unset and whose parent
\* was destroyed
C17_Witness ==
    \E c \in Calls :
        /\ made(c)
        /\ signal[c] = "pending"
        /\ \E h \in TrackedSet(c) :
              /\ parentOf[h] # NoParent
              /\ destroyedAtCall[c][parentOf[h]]
              /\ ~destroyedAtCall[c][h]
              /\ checkDestroyed(h, destroyedAtCall[c])

\* a handle accepted after call c was made
Late(c, h) ==
    /\ made(c)
    /\ accepted[h]
    /\ h \notin TrackedSet(c)
    /\ h \notin closedAtCall[c]

\* C18: a handle accepted after a destroy() call is registered while open, and
\* that call neither force-terminates it nor waits for it
C18_LateConnectionNotCaught ==
    \A c \in Calls, h \in Handles :
        Late(c, h) =>
            /\ ~InSeq(destroyLog[c], h)
            /\ h \notin waiting[c]
            /\ ~closeFired(h) => h \in HandlesOf(connectionDict)

\* a call has resolved while a handle accepted after it is open, untouched and
\* in the registry
C18_Witness ==
    \E c \in Calls, h \in Handles :
        /\ Late(c, h)
        /\ signal[c] = "resolved"
        /\ ~destroyed[h]
        /\ ~closeFired(h)
        /\ h \in HandlesOf(connectionDict)

C20_AwaitedHandlesUnregistered ==
    \A c \in Calls :
        \A h \in TrackedSet(c) :
            (~ReportsClosed(c, h, ExamFlags(c, h)) /\ h \notin waiting[c])
                => h \notin HandlesOf(connectionDict)

\* a call resolved after the server closed, every handle it awaited being out
\* of the registry
C20_Witness ==
    \E c \in Calls :
        /\ signal[c] = "resolved"
        /\ serverCb[c] = "ok"
        /\ TrackedSet(c) # {}
        /\ \A h \in TrackedSet(c) :
              /\ ~ReportsClosed(c, h, ExamFlags(c, h))
              /\ h \notin HandlesOf(connectionDict)

====
